---------------------------- MODULE Spec2Model ----------------------------
(***************************************************************************)
(* A model of the CHIP-8 emulator (alkuzin/chip8): the OpCode decoder and  *)
(* its mnemonic rendering (src/emulator/opcode.rs), the CPU with its       *)
(* fetch/execute loop (src/emulator/cpu.rs) and the Emulator front end     *)
(* that reads a program file and either emulates or disassembles it        *)
(* (src/emulator/mod.rs, src/emulator/disasm/mod.rs).                      *)
(*                                                                         *)
(* Text is modelled as a sequence of one-character strings, so that the    *)
(* formatting done by format!() is computed and can be compared.           *)
(***************************************************************************)
EXTENDS Integers, Sequences, FiniteSets, TLC

(***************************************************************************)
(* Program constants (src/emulator/cpu.rs).                                *)
(***************************************************************************)
RAM_SIZE == 4096

STACK_SIZE == 16

REGISTER_COUNT == 16

START_ADDR == 512

(***************************************************************************)
(* Bounds of the model.                                                    *)
(***************************************************************************)
\* The longest short program file, in 16-bit words.
MaxWords == 2

\* The number of instructions the run loop is followed for.
MaxSteps == 18

\* The longest argument list after the program name.
MaxArgs == 3

\* The instructions a long run is followed for: more than the 1792 words
\* between START_ADDR and the end of memory.
LineSteps == 1800

(***************************************************************************)
(* Machine arithmetic.                                                     *)
(***************************************************************************)
RECURSIVE Pow2(_)
Pow2(n) == IF n = 0 THEN 1 ELSE 2 * Pow2(n - 1)

\* a & b on unsigned integers, bit by bit.
RECURSIVE BitAnd(_, _)
BitAnd(a, b) ==
    IF a = 0 \/ b = 0 THEN 0
    ELSE (IF a % 2 = 1 /\ b % 2 = 1 THEN 1 ELSE 0)
         + 2 * BitAnd(a \div 2, b \div 2)

\* a >> n
Shr(a, n) == a \div Pow2(n)

\* `as u8`
AsU8(a) == a % 256

\* u16::from_be_bytes([hi, lo])
FromBeBytes(hi, lo) == hi * 256 + lo

(***************************************************************************)
(* Text formatting, as format!() does it.                                  *)
(***************************************************************************)
HexDigits == <<"0", "1", "2", "3", "4", "5", "6", "7", "8", "9", "A", "B", "C", "D", "E", "F">>

DecDigits == <<"0", "1", "2", "3", "4", "5", "6", "7", "8", "9">>

\* The digits of n in upper-case hexadecimal, no leading zeros.
RECURSIVE UpperHex(_)
UpperHex(n) ==
    IF n < 16 THEN <<HexDigits[n + 1]>>
    ELSE UpperHex(n \div 16) \o <<HexDigits[(n % 16) + 1]>>

\* {n} : the digits of n in decimal.
RECURSIVE Display(_)
Display(n) ==
    IF n < 10 THEN <<DecDigits[n + 1]>>
    ELSE Display(n \div 10) \o <<DecDigits[(n % 10) + 1]>>

Zeros(k) == [i \in 1..k |-> "0"]

\* {n:0wX} (alt = FALSE) and {n:#0wX} (alt = TRUE): with '#' the text starts
\* with "0x", and the zero padding up to width w follows that prefix; the
\* width counts the prefix.
FmtUpperHex(n, alt, width) ==
    LET prefix == IF alt THEN <<"0", "x">> ELSE <<>>
        digits == UpperHex(n)
        pad    == width - Len(prefix) - Len(digits)
    IN  prefix \o Zeros(IF pad > 0 THEN pad ELSE 0) \o digits

StartsWith(s, p) == Len(s) >= Len(p) /\ SubSeq(s, 1, Len(p)) = p

(***************************************************************************)
(* OpCode (src/emulator/opcode.rs).                                        *)
(***************************************************************************)
\* A plausible slip in OpCode::new: reg_y taken with the mask of nibble.
OpCodeNew_WrongMask(raw) ==
    [raw    |-> raw,
     addr   |-> BitAnd(raw, 4095),
     class  |-> AsU8(Shr(BitAnd(raw, 61440), 12)),
     reg_x  |-> AsU8(Shr(BitAnd(raw, 3840), 8)),
     reg_y  |-> AsU8(Shr(BitAnd(raw, 15), 4)),
     byte   |-> AsU8(BitAnd(raw, 255)),
     nibble |-> AsU8(BitAnd(raw, 15))]

\* OpCode::new: 0x0FFF = 4095, 0xF000 = 61440, 0x0F00 = 3840, 0x00F0 = 240,
\* 0x00FF = 255, 0x000F = 15.
OpCodeNew(raw) ==
    [raw    |-> raw,
     addr   |-> BitAnd(raw, 4095),
     class  |-> AsU8(Shr(BitAnd(raw, 61440), 12)),
     reg_x  |-> AsU8(Shr(BitAnd(raw, 3840), 8)),
     reg_y  |-> AsU8(Shr(BitAnd(raw, 240), 4)),
     byte   |-> AsU8(BitAnd(raw, 255)),
     nibble |-> AsU8(BitAnd(raw, 15))]

\* OpCode::unknown
unknown_mnemonic(op) == <<"U", "N", "K", "N", "O", "W", "N", ":", " ">> \o FmtUpperHex(op.raw, FALSE, 4)

decode_0xxx(op) ==
    CASE op.raw = 224 -> <<"C", "L", "S">>
      [] op.raw = 238 -> <<"R", "E", "T">>
      [] OTHER -> <<"S", "Y", "S", " ">> \o FmtUpperHex(op.addr, TRUE, 3)

decode_nnn(op) ==
    CASE op.class = 1  -> <<"J", "P", " ">> \o FmtUpperHex(op.addr, TRUE, 3)
      [] op.class = 2  -> <<"C", "A", "L", "L", " ">> \o FmtUpperHex(op.addr, TRUE, 3)
      [] op.class = 10 -> <<"L", "D", " ", "I", ",", " ">> \o FmtUpperHex(op.addr, TRUE, 3)
      [] op.class = 11 -> <<"J", "P", " ", "V", "0", ",", " ">> \o FmtUpperHex(op.addr, TRUE, 3)
      [] OTHER -> unknown_mnemonic(op)

\* "<name> V{reg_x}, {byte:#02X}"
XkkText(name, op) ==
    name \o <<" ", "V">> \o Display(op.reg_x) \o <<",", " ">> \o FmtUpperHex(op.byte, TRUE, 2)

decode_xkk(op) ==
    CASE op.class = 3  -> XkkText(<<"S", "E">>, op)
      [] op.class = 4  -> XkkText(<<"S", "N", "E">>, op)
      [] op.class = 6  -> XkkText(<<"L", "D">>, op)
      [] op.class = 7  -> XkkText(<<"A", "D", "D">>, op)
      [] op.class = 12 -> XkkText(<<"R", "N", "D">>, op)
      [] OTHER -> unknown_mnemonic(op)

\* "<name> V{reg_x}, V{reg_y}"
XyText(name, op) ==
    name \o <<" ", "V">> \o Display(op.reg_x) \o <<",", " ", "V">> \o Display(op.reg_y)

\* "<name> V{reg_x} {{, V{reg_y}}}"
ShiftText(name, op) ==
    name \o <<" ", "V">> \o Display(op.reg_x) \o <<" ", "{", ",", " ", "V">> \o Display(op.reg_y) \o <<"}">>

decode_xy(op) ==
    CASE op.class = 5 ->
           (CASE op.nibble = 0 -> XyText(<<"S", "E">>, op)
              [] OTHER -> unknown_mnemonic(op))
      [] op.class = 8 ->
           (CASE op.nibble = 0  -> XyText(<<"L", "D">>, op)
              [] op.nibble = 1  -> XyText(<<"O", "R">>, op)
              [] op.nibble = 2  -> XyText(<<"A", "N", "D">>, op)
              [] op.nibble = 3  -> XyText(<<"X", "O", "R">>, op)
              [] op.nibble = 4  -> XyText(<<"A", "D", "D">>, op)
              [] op.nibble = 5  -> XyText(<<"S", "U", "B">>, op)
              [] op.nibble = 6  -> ShiftText(<<"S", "H", "R">>, op)
              [] op.nibble = 7  -> XyText(<<"S", "U", "B", "N">>, op)
              [] op.nibble = 14 -> ShiftText(<<"S", "H", "L">>, op)
              [] OTHER -> unknown_mnemonic(op))
      [] op.class = 9 ->
           (CASE op.nibble = 0 -> XyText(<<"S", "N", "E">>, op)
              [] OTHER -> unknown_mnemonic(op))
      [] op.class = 13 ->
           XyText(<<"D", "R", "W">>, op) \o <<",", " ">> \o FmtUpperHex(op.nibble, TRUE, 2)
      [] OTHER -> unknown_mnemonic(op)

\* A slip in decode_ex: the arm for 0xA1 left out.
decode_ex_NoSknp(op) ==
    CASE op.byte = 158 -> <<"S", "K", "P", " ", "V">> \o Display(op.reg_x)
      [] OTHER -> unknown_mnemonic(op)

decode_ex(op) ==
    CASE op.byte = 158 -> <<"S", "K", "P", " ", "V">> \o Display(op.reg_x)
      [] op.byte = 161 -> <<"S", "K", "N", "P", " ", "V">> \o Display(op.reg_x)
      [] OTHER -> unknown_mnemonic(op)

decode_fx(op) ==
    CASE op.byte = 7   -> <<"L", "D", " ", "V">> \o Display(op.reg_x) \o <<",", " ", "D", "T">>
      [] op.byte = 10  -> <<"L", "D", " ", "V">> \o Display(op.reg_x) \o <<",", " ", "K">>
      [] op.byte = 21  -> <<"L", "D", " ", "D", "T", ",", " ", "V">> \o Display(op.reg_x)
      [] op.byte = 24  -> <<"L", "D", " ", "S", "T", ",", " ", "V">> \o Display(op.reg_x)
      [] op.byte = 30  -> <<"A", "D", "D", " ", "I", ",", " ", "V">> \o Display(op.reg_x)
      [] op.byte = 41  -> <<"L", "D", " ", "F", ",", " ", "V">> \o Display(op.reg_x)
      [] op.byte = 51  -> <<"L", "D", " ", "B", ",", " ", "V">> \o Display(op.reg_x)
      [] op.byte = 85  -> <<"L", "D", " ", "[", "I", "]", ",", " ", "V">> \o Display(op.reg_x)
      [] op.byte = 101 -> <<"L", "D", " ", "V">> \o Display(op.reg_x) \o <<",", " ", "[", "I", "]">>
      [] OTHER -> unknown_mnemonic(op)

\* <OpCode as Decodable>::decode
decode(op) ==
    CASE op.class = 0 -> decode_0xxx(op)
      [] op.class \in {1, 2, 10, 11} -> decode_nnn(op)
      [] op.class \in {3, 4, 6, 7, 12} -> decode_xkk(op)
      [] op.class \in {5, 8, 9, 13} -> decode_xy(op)
      [] op.class = 14 -> decode_ex(op)
      [] op.class = 15 -> decode_fx(op)
      [] OTHER -> unknown_mnemonic(op)

(***************************************************************************)
(* State.                                                                  *)
(***************************************************************************)
VARIABLES
    \* The environment of one process run.
    mode,             \* "Emulator" or "Disassembler" (emulator::Mode)
    file_status,      \* "ok", "open_error" or "read_error": what the file system answers
    file,             \* the bytes of the program file
    overflow_checks,  \* the build profile: TRUE when integer overflow panics (debug)
    args,             \* env::args(): the program name and the command-line arguments
    filename,         \* the target filename handle_args returned
    \* Emulator::run.
    ctl,              \* where the process is
    outcome,          \* how the process ended; "none" while it runs
    program_data,     \* the buffer extract_program returned
    listing,          \* the lines disassemble printed
    console,          \* the lines the Cpu printed (Cpu::execute, Cpu::unknown)
    \* Cpu (src/emulator/cpu.rs, struct Cpu).
    memory, registers, register_i, pc, sp, stack, dt, st, opcode,
    \* History variables: they record the run and are read by no action's guard
    \* except the bound on steps.
    steps,            \* instructions fetched so far
    fetch_addr,       \* address the current instruction was fetched from
    call_log,         \* one record per CALL that is still open, innermost first
    ret_match,        \* the record of the CALL the last RET closed, or NoCall
    decoded           \* the OpCode values disassemble constructed, in order

cpu == <<memory, registers, register_i, pc, sp, stack, dt, st, opcode>>

env == <<mode, file_status, file, overflow_checks, args, filename>>

hist == <<steps, fetch_addr, call_log, ret_match, decoded>>

vars == <<env, ctl, outcome, program_data, listing, console, cpu, hist>>

NoCall == [ret |-> -1, sp |-> -1]

Modes == {"Emulator", "Disassembler"}

(***************************************************************************)
(* Inputs: the program files a run is started on.                          *)
(***************************************************************************)
\* The instruction words short programs are written with.
\*   0000 SYS 0      00EE RET        11FE JP 1FE     1FFC JP FFC
\*   2200 CALL 200   21FE CALL 1FE   60FF LD V0,FF   7001 ADD V0,1
\*   BFFF JP V0,FFF  5001, E000 (no such instructions)
ProgWords ==
    {0, 238, 4606, 8188, 8704, 8702, 24831, 28673, 49151, 20481, 57344}

WordBytes(w) == <<w \div 256, w % 256>>

RECURSIVE BytesOf(_)
BytesOf(ws) == IF ws = <<>> THEN <<>> ELSE WordBytes(Head(ws)) \o BytesOf(Tail(ws))

WordSeqs == UNION {[1..n -> ProgWords] : n \in 0..MaxWords}

\* Short files of whole words.
ShortFiles == {BytesOf(ws) : ws \in WordSeqs}

\* Files of odd length: a short file cut one byte short.
OddFiles == {SubSeq(f, 1, Len(f) - 1) : f \in ShortFiles \ {<<>>}}

\* The largest program load_program has room for: 4096 - 0x200 = 3584 bytes.
MaxProgram == RAM_SIZE - START_ADDR

\* w repeated, cut to n bytes.
Repeat(w, n) == [i \in 1..n |-> WordBytes(w)[((i - 1) % 2) + 1]]

\* Files that fill the room exactly, and files one and two bytes too long.
LongFiles ==
    {Repeat(w, n) : w \in {24831, 4606}, n \in MaxProgram..(MaxProgram + 2)}

Files == ShortFiles \cup OddFiles \cup LongFiles

(***************************************************************************)
(* Cpu::new and Emulator::new.                                             *)
(***************************************************************************)
ResetMemory == [a \in 0..(RAM_SIZE - 1) |-> 0]

ResetRegisters == [r \in 0..(REGISTER_COUNT - 1) |-> 0]

ResetStack == [i \in 0..(STACK_SIZE - 1) |-> 0]

CpuNew ==
    /\ memory = ResetMemory
    /\ registers = ResetRegisters
    /\ register_i = 0
    /\ pc = START_ADDR
    /\ sp = 0
    /\ stack = ResetStack
    /\ dt = 0
    /\ st = 0
    /\ opcode = OpCodeNew(0)

\* Emulator::new(): a new Cpu and nothing read, printed or executed yet.
EmulatorNew ==
    /\ CpuNew
    /\ outcome = "none"
    /\ program_data = <<>>
    /\ listing = <<>>
    /\ console = <<>>
    /\ steps = 0
    /\ fetch_addr = START_ADDR
    /\ call_log = <<>>
    /\ ret_match = NoCall
    /\ decoded = <<>>

\* The name the program file is given on the command line.
RomName == "rom.ch8"

\* The command line that selects mode m for the program file.
ArgsOf(m) == <<"chip8", IF m = "Disassembler" THEN "-d" ELSE "-e", RomName>>

\* handle_args has returned (mode, filename) for the command line.
ArgsHandled ==
    /\ args = ArgsOf(mode)
    /\ filename = RomName

\* main: the arguments are handled, Emulator::new() has run, and
\* emulator.run(mode, filename) is about to be called.
Start ==
    /\ EmulatorNew
    /\ ctl = "run"

Init ==
    /\ mode \in Modes
    /\ \/ file_status = "ok" /\ file \in Files
       \/ file_status \in {"open_error", "read_error"} /\ file = <<>>
    /\ overflow_checks \in BOOLEAN
    /\ ArgsHandled
    /\ Start

\* The instruction words of the programs that compare, load and add.
\*   3000 SE V0,0    30FF SE V0,FF   4000 SNE V0,0   40FF SNE V0,FF
\*   60FF LD V0,FF   7001 ADD V0,1   8014 ADD V0,V1  A123 LD I,123
\*   AFFF LD I,FFF   1FFC JP FFC     0123 SYS 123    B200 JP V0,200
AluWords ==
    {12288, 12543, 16384, 16639, 24831, 28673, 32788, 41251, 45055, 8188,
     291, 45568}

\* The files of 0..MaxWords words over AluWords.
AluFiles == {BytesOf(ws) : ws \in UNION {[1..n -> AluWords] : n \in 0..MaxWords}}

InitAlu ==
    /\ mode \in Modes
    /\ file_status = "ok"
    /\ file \in AluFiles
    /\ overflow_checks \in BOOLEAN
    /\ ArgsHandled
    /\ Start

\* The words that are run as a program of one instruction: every class,
\* with the low bytes the dispatcher and the decoder tell apart and some
\* they do not.
\*   00, 01, 07, 0E, 14, 9E, A1, E0, EE, FF
SampleWords ==
    {c * 4096 + x * 256 + b :
        c \in 0..15, x \in {0, 10},
        b \in {0, 1, 7, 14, 20, 158, 161, 224, 238, 255}}

\* Every 16-bit word is disassembled as a file of one word, and the sample
\* words are also run.  A first instruction cannot overflow a register, so
\* one build profile is enough here.
InitWord ==
    /\ file_status = "ok"
    /\ \/ /\ mode = "Disassembler"
          /\ file \in {<<hi, lo>> : hi \in 0..255, lo \in 0..255}
       \/ /\ mode = "Emulator"
          /\ file \in {WordBytes(w) : w \in SampleWords}
    /\ overflow_checks = TRUE
    /\ ArgsHandled
    /\ Start

\* The instruction words of straight-line programs.
\*   0123 SYS 123    60FF LD V0,FF   A123 LD I,123   C001 RND V0,01
LineWords == {291, 24831, 41251, 49153}

\* The empty program, each word alone, and the four in a row.
LineFiles ==
    {<<>>} \cup {WordBytes(w) : w \in LineWords}
           \cup {BytesOf(<<291, 24831, 41251, 49153>>)}

\* A straight-line program is run.
InitLine ==
    /\ mode = "Emulator"
    /\ file_status = "ok"
    /\ file \in LineFiles
    /\ overflow_checks = TRUE
    /\ ArgsHandled
    /\ Start

\* What may stand on the command line: the options, a file name, an empty
\* string and an option the program does not know.
ArgTokens ==
    {"-h", "--help", "-v", "--version", "-d", "--disasm", "-e", "--emulator",
     RomName, "", "-x"}

\* The argument vectors: the program name and up to MaxArgs arguments.
ArgLists ==
    {<<"chip8">> \o t : t \in UNION {[1..n -> ArgTokens] : n \in 0..MaxArgs}}

\* main is entered with a command line; the program file holds 1FFC (JP FFC).
InitArgs ==
    /\ args \in ArgLists
    /\ mode = "Emulator"
    /\ filename = ""
    /\ file_status = "ok"
    /\ file = WordBytes(8188)
    /\ overflow_checks = TRUE
    /\ ctl = "main"
    /\ EmulatorNew

(***************************************************************************)
(* Emulator::run and extract_program (src/emulator/mod.rs).                *)
(***************************************************************************)
Stop(how) == ctl' = "done" /\ outcome' = how

(***************************************************************************)
(* handle_args (src/args.rs).                                              *)
(***************************************************************************)
Exit(how) == [returned |-> FALSE, how |-> how, mode |-> "Emulator", filename |-> ""]

\* get_filename(args, pos): args.get(pos), or exit(1) when there is none.
get_filename(a, m, pos) ==
    IF pos < Len(a)
    THEN [returned |-> TRUE, how |-> "none", mode |-> m, filename |-> a[pos + 1]]
    ELSE Exit("exit(1): target path is not set")

\* The body of the loop over args[1..argc] for the argument of index i:
\* every arm either ends the process or leaves the loop.
match_arg(a, i) ==
    LET arg == a[i + 2]
    IN  CASE arg \in {"-h", "--help"}     -> Exit("exit(0): help")
          [] arg \in {"-v", "--version"}  -> Exit("exit(0): version")
          [] arg \in {"-d", "--disasm"}   -> get_filename(a, "Disassembler", i + 2)
          [] arg \in {"-e", "--emulator"} -> get_filename(a, "Emulator", i + 2)
          [] OTHER                        -> Exit("exit(1): unknown option")

\* A slip in handle_args: the filename taken from the option's own position.
handle_args_SamePosition(a) ==
    IF Len(a) < 2
    THEN Exit("exit(1): usage")
    ELSE LET r == match_arg(a, 0)
             s == IF r.returned THEN [r EXCEPT !.filename = a[2]] ELSE r
         IN  IF s.returned /\ s.filename = ""
             THEN Exit("exit(1): filename is empty")
             ELSE s

\* handle_args: (mode, filename), or the exit of the process.
handle_args(a) ==
    IF Len(a) < 2
    THEN Exit("exit(1): usage")
    ELSE LET r == match_arg(a, 0)
         IN  IF r.returned /\ r.filename = ""
             THEN Exit("exit(1): filename is empty")
             ELSE r

\* main: `let (mode, filename) = args::handle_args();`
HandleArgs ==
    /\ ctl = "main"
    /\ LET r == handle_args(args)
       IN  IF r.returned
           THEN /\ mode' = r.mode
                /\ filename' = r.filename
                /\ ctl' = "run"
                /\ outcome' = outcome
           ELSE /\ Stop(r.how)
                /\ UNCHANGED <<mode, filename>>
    /\ UNCHANGED <<file_status, file, overflow_checks, args>>
    /\ UNCHANGED <<program_data, listing, console, cpu, hist>>

\* A slip in extract_program: the check of the length left out.
extract_program_NoParityCheck ==
    IF file_status = "open_error" THEN [ok |-> FALSE, err |-> "Err: open", data |-> <<>>]
    ELSE IF file_status = "read_error" THEN [ok |-> FALSE, err |-> "Err: read", data |-> <<>>]
    ELSE [ok |-> TRUE, err |-> "none", data |-> file]

\* extract_program: Ok(buffer) or Err(message).
extract_program ==
    IF file_status = "open_error" THEN [ok |-> FALSE, err |-> "Err: open", data |-> <<>>]
    ELSE IF file_status = "read_error" THEN [ok |-> FALSE, err |-> "Err: read", data |-> <<>>]
    ELSE IF Len(file) % 2 # 0 THEN [ok |-> FALSE, err |-> "Err: odd length", data |-> <<>>]
    ELSE [ok |-> TRUE, err |-> "none", data |-> file]

\* Emulator::run: `self.extract_program(&filename)?` and the match on mode.
EmulatorRun ==
    /\ ctl = "run"
    /\ LET r == extract_program
       IN  IF r.ok
           THEN /\ program_data' = r.data
                /\ ctl' = IF mode = "Emulator" THEN "emulate" ELSE "disassemble"
                /\ outcome' = outcome
           ELSE /\ Stop(r.err)
                /\ program_data' = program_data
    /\ UNCHANGED <<env, listing, console, cpu, hist>>

(***************************************************************************)
(* disassemble (src/emulator/disasm/mod.rs).                               *)
(***************************************************************************)
\* A slip in disassemble: every line given the address of the first.
ListingLine_FixedAddr(i, word) ==
    <<"<">> \o FmtUpperHex(512, TRUE, 6) \o <<">", " ", " ", "|">>
      \o FmtUpperHex(word, FALSE, 4) \o <<"|", " ", " ">> \o decode(OpCodeNew(word))

\* "<{addr:#06X}>  |{bytes:04X}|  {opcode}"
ListingLine(i, word) ==
    <<"<">> \o FmtUpperHex(512 + i * 2, TRUE, 6) \o <<">", " ", " ", "|">>
      \o FmtUpperHex(word, FALSE, 4) \o <<"|", " ", " ">> \o decode(OpCodeNew(word))

\* The words of the buffer, big-endian (chunks_exact(2)).
WordsOf(bytes) ==
    [i \in 1..(Len(bytes) \div 2) |-> FromBeBytes(bytes[2 * i - 1], bytes[2 * i])]

Disassemble ==
    /\ ctl = "disassemble"
    /\ LET buffer == WordsOf(program_data)
       IN  /\ decoded' = [i \in 1..Len(buffer) |-> OpCodeNew(buffer[i])]
           /\ listing' = [i \in 1..Len(buffer) |-> ListingLine(i - 1, buffer[i])]
    /\ Stop("Ok")
    /\ UNCHANGED <<env, program_data, console, cpu>>
    /\ UNCHANGED <<steps, fetch_addr, call_log, ret_match>>

(***************************************************************************)
(* Cpu::load_program.                                                      *)
(***************************************************************************)
\* A slip in load_program: the program put one byte too high.
LoadedMemory_Shifted(mem, data) ==
    [a \in 0..(RAM_SIZE - 1) |->
        IF a >= START_ADDR + 1 /\ a <= START_ADDR + Len(data)
        THEN data[a - START_ADDR] ELSE mem[a]]

\* memory[START_ADDR..START_ADDR + len].copy_from_slice(program_data)
LoadedMemory(mem, data) ==
    [a \in 0..(RAM_SIZE - 1) |->
        IF a >= START_ADDR /\ a < START_ADDR + Len(data)
        THEN data[a - START_ADDR + 1] ELSE mem[a]]

\* Emulator::emulate calls load_program; indexing memory with a range that
\* ends beyond RAM_SIZE panics.
LoadProgram ==
    /\ ctl = "emulate"
    /\ IF START_ADDR + Len(program_data) > RAM_SIZE
       THEN /\ Stop("panic: range end index out of range")
            /\ memory' = memory
       ELSE /\ memory' = LoadedMemory(memory, program_data)
            /\ ctl' = "run_loop"
            /\ outcome' = outcome
    /\ UNCHANGED <<env, program_data, listing, console, hist>>
    /\ UNCHANGED <<registers, register_i, pc, sp, stack, dt, st, opcode>>

(***************************************************************************)
(* Cpu::run: while self.pc != RAM_SIZE { fetch; execute; pc += 2 }.        *)
(***************************************************************************)
\* The loop condition fails: run returns and emulate returns Ok(()).
Halt ==
    /\ ctl = "run_loop"
    /\ pc = RAM_SIZE
    /\ Stop("Ok")
    /\ UNCHANGED <<env, program_data, listing, console, cpu, hist>>

\* Cpu::fetch: reads memory[pos] and memory[pos + 1]; an index beyond the
\* array panics.
FetchWithin(limit) ==
    /\ ctl = "run_loop"
    /\ pc # RAM_SIZE
    /\ steps < limit
    /\ LET pos == pc
       IN  IF pos + 1 >= RAM_SIZE
           THEN /\ Stop("panic: index out of bounds (memory)")
                /\ opcode' = opcode
           ELSE /\ opcode' = OpCodeNew(FromBeBytes(memory[pos], memory[pos + 1]))
                /\ ctl' = "execute"
                /\ outcome' = outcome
    /\ steps' = steps + 1
    /\ fetch_addr' = pc
    /\ UNCHANGED <<env, program_data, listing, console, call_log, ret_match, decoded>>
    /\ UNCHANGED <<memory, registers, register_i, pc, sp, stack, dt, st>>

\* A run is followed for MaxSteps instructions.
Fetch == FetchWithin(MaxSteps)

\* A long run is followed for LineSteps instructions.
FetchLine == FetchWithin(LineSteps)

(***************************************************************************)
(* The handlers of Cpu::execute.  Each says what it does to the registers, *)
(* I, PC, SP and the stack, and how control goes on; no handler writes     *)
(* memory or a timer.                                                      *)
(***************************************************************************)
Continue == ctl' = "advance" /\ outcome' = outcome

\* A slip in unknown: the word is skipped and the run goes on.
unknown_Continue ==
    /\ Continue
    /\ UNCHANGED <<registers, register_i, pc, sp, stack>>

\* Cpu::unknown: prints the word and calls std::process::exit(1).
unknown ==
    /\ Stop("exit(1): unknown opcode")
    /\ UNCHANGED <<registers, register_i, pc, sp, stack>>

\* unimplemented!()
unimplemented ==
    /\ Stop("panic: not implemented")
    /\ UNCHANGED <<registers, register_i, pc, sp, stack>>

\* Cpu::clear_display
clear_display == unimplemented

\* A slip in ret: the test of the stack pointer left out, so that `sp -= 1`
\* runs at sp = 0 (a panic with overflow checks, 255 without).
ret_NoGuard ==
    IF sp > 0
    THEN /\ sp' = sp - 1
         /\ pc' = stack[sp - 1]
         /\ UNCHANGED <<registers, register_i, stack>>
         /\ Continue
    ELSE IF overflow_checks
    THEN /\ Stop("panic: attempt to subtract with overflow")
         /\ UNCHANGED <<registers, register_i, pc, sp, stack>>
    ELSE /\ sp' = 255
         /\ Stop("panic: index out of bounds (stack)")
         /\ UNCHANGED <<registers, register_i, pc, stack>>

\* Cpu::ret
ret ==
    IF sp > 0
    THEN /\ sp' = sp - 1
         /\ pc' = stack[sp - 1]
         /\ UNCHANGED <<registers, register_i, stack>>
         /\ Continue
    ELSE /\ UNCHANGED <<registers, register_i, pc, sp, stack>>
         /\ Continue

\* A slip in sys: the address kept in I.
sys_SetsIndex(addr) ==
    /\ register_i' = addr
    /\ UNCHANGED <<registers, pc, sp, stack>>
    /\ Continue

\* Cpu::sys
sys(addr) ==
    /\ UNCHANGED <<registers, register_i, pc, sp, stack>>
    /\ Continue

\* Cpu::execute_0xxx: 0x00E0 = 224, 0x00EE = 238.
execute_0xxx ==
    CASE opcode.raw = 224 -> clear_display
      [] opcode.raw = 238 -> ret
      [] OTHER -> sys(opcode.addr)

\* Cpu::jump
jump(addr) ==
    /\ pc' = addr
    /\ UNCHANGED <<registers, register_i, sp, stack>>
    /\ Continue

\* Cpu::call: `self.sp += 1` is done before the stack is indexed, so the
\* panic of an index beyond the array leaves sp incremented.
call(addr) ==
    IF sp + 1 < STACK_SIZE
    THEN /\ sp' = sp + 1
         /\ stack' = [stack EXCEPT ![sp + 1] = pc]
         /\ pc' = addr
         /\ UNCHANGED <<registers, register_i>>
         /\ Continue
    ELSE /\ sp' = sp + 1
         /\ Stop("panic: index out of bounds (stack)")
         /\ UNCHANGED <<registers, register_i, pc, stack>>

\* A slip in set_reg_i: the whole word stored instead of its address.
set_reg_i_RawWord(addr) ==
    /\ register_i' = opcode.raw
    /\ UNCHANGED <<registers, pc, sp, stack>>
    /\ Continue

\* Cpu::set_reg_i
set_reg_i(addr) ==
    /\ register_i' = addr
    /\ UNCHANGED <<registers, pc, sp, stack>>
    /\ Continue

\* Cpu::jump_by_offset
jump_by_offset(addr) ==
    /\ pc' = registers[0] + addr
    /\ UNCHANGED <<registers, register_i, sp, stack>>
    /\ Continue

\* Cpu::execute_0nnn
execute_0nnn ==
    LET addr == opcode.addr
    IN  CASE opcode.class = 1  -> jump(addr)
          [] opcode.class = 2  -> call(addr)
          [] opcode.class = 10 -> set_reg_i(addr)
          [] opcode.class = 11 -> jump_by_offset(addr)
          [] OTHER -> unknown

\* A slip in skip_eq: the comparison inverted.
skip_eq_Inverted(reg, byte) ==
    /\ pc' = IF registers[reg] # byte THEN pc + 2 ELSE pc
    /\ UNCHANGED <<registers, register_i, sp, stack>>
    /\ Continue

\* Cpu::skip_eq
skip_eq(reg, byte) ==
    /\ pc' = IF registers[reg] = byte THEN pc + 2 ELSE pc
    /\ UNCHANGED <<registers, register_i, sp, stack>>
    /\ Continue

\* Cpu::skip_ne
skip_ne(reg, byte) ==
    /\ pc' = IF registers[reg] # byte THEN pc + 2 ELSE pc
    /\ UNCHANGED <<registers, register_i, sp, stack>>
    /\ Continue

\* Cpu::set_reg_byte
set_reg_byte(reg, byte) ==
    /\ registers' = [registers EXCEPT ![reg] = byte]
    /\ UNCHANGED <<register_i, pc, sp, stack>>
    /\ Continue

\* Cpu::add_reg_byte: `+=` on u8 panics on overflow in a build with overflow
\* checks and wraps in one without.
add_reg_byte(reg, byte) ==
    IF registers[reg] + byte > 255 /\ overflow_checks
    THEN /\ Stop("panic: attempt to add with overflow")
         /\ UNCHANGED <<registers, register_i, pc, sp, stack>>
    ELSE /\ registers' = [registers EXCEPT ![reg] = (registers[reg] + byte) % 256]
         /\ UNCHANGED <<register_i, pc, sp, stack>>
         /\ Continue

\* Cpu::rnd: random_range(0..255) draws from 0..254.
rnd(reg, byte) ==
    /\ \E random_byte \in 0..254 :
          registers' = [registers EXCEPT ![reg] = BitAnd(random_byte, byte)]
    /\ UNCHANGED <<register_i, pc, sp, stack>>
    /\ Continue

\* Cpu::execute_xkk
execute_xkk ==
    LET reg_x == opcode.reg_x
        byte  == opcode.byte
    IN  CASE opcode.class = 3  -> skip_eq(reg_x, byte)
          [] opcode.class = 4  -> skip_ne(reg_x, byte)
          [] opcode.class = 6  -> set_reg_byte(reg_x, byte)
          [] opcode.class = 7  -> add_reg_byte(reg_x, byte)
          [] opcode.class = 12 -> rnd(reg_x, byte)
          [] OTHER -> unknown

\* Cpu::skip_if_key_pressed
skip_if_key_pressed(reg) == unimplemented

\* Cpu::skip_if_key_not_pressed
skip_if_key_not_pressed(reg) == unimplemented

\* Cpu::execute_ex: 0x9E = 158, 0xA1 = 161.
execute_ex ==
    LET reg_x == opcode.reg_x
    IN  CASE opcode.byte = 158 -> skip_if_key_pressed(reg_x)
          [] opcode.byte = 161 -> skip_if_key_not_pressed(reg_x)
          [] OTHER -> unknown

\* What Cpu::execute does with the call log: a CALL that pushed opens a
\* record of where the call was and what sp was, a RET that popped closes
\* the innermost one.
LogCalls ==
    IF opcode.class = 2 /\ ctl' = "advance"
    THEN /\ call_log' = <<[ret |-> fetch_addr + 2, sp |-> sp]>> \o call_log
         /\ ret_match' = NoCall
    ELSE IF opcode.raw = 238 /\ call_log # <<>>
    THEN /\ ret_match' = Head(call_log)
         /\ call_log' = Tail(call_log)
    ELSE /\ call_log' = call_log
         /\ ret_match' = NoCall

\* println!("Executing: |{:04X}|   {}", opcode.raw, opcode.decode())
ExecutingLine(op) ==
    <<"E", "x", "e", "c", "u", "t", "i", "n", "g", ":", " ", "|">> \o FmtUpperHex(op.raw, FALSE, 4) \o <<"|", " ", " ", " ">> \o decode(op)

\* println!("UNKNOWN: |{:04X}|   {}", opcode.raw, opcode.decode())
UnknownLine(op) ==
    <<"U", "N", "K", "N", "O", "W", "N", ":", " ", "|">> \o FmtUpperHex(op.raw, FALSE, 4) \o <<"|", " ", " ", " ">> \o decode(op)

\* What Cpu::execute prints: its own line before the match, and the line
\* of Cpu::unknown when the match ends there.
Printed ==
    console' =
        console \o <<ExecutingLine(opcode)>>
                \o (IF outcome' = "exit(1): unknown opcode"
                    THEN <<UnknownLine(opcode)>> ELSE <<>>)

\* Cpu::execute: the match on the class of the opcode.
Execute ==
    /\ ctl = "execute"
    /\ CASE opcode.class = 0 -> execute_0xxx
         [] opcode.class \in {1, 2, 10, 11} -> execute_0nnn
         [] opcode.class \in {3, 4, 6, 7, 12} -> execute_xkk
         [] opcode.class \in {5, 8, 9, 13, 15} -> unimplemented
         [] opcode.class = 14 -> execute_ex
         [] OTHER -> unknown
    /\ LogCalls
    /\ Printed
    /\ UNCHANGED <<memory, dt, st, opcode>>
    /\ UNCHANGED <<env, program_data, listing, steps, fetch_addr, decoded>>

\* A slip in run: the sound timer counted down (wrapping) once per instruction.
Advance_TimerTick ==
    /\ ctl = "advance"
    /\ pc' = pc + 2
    /\ st' = (st + 255) % 256
    /\ ctl' = "run_loop"
    /\ UNCHANGED <<memory, registers, register_i, sp, stack, dt, opcode>>
    /\ UNCHANGED <<env, outcome, program_data, listing, console, hist>>

\* A slip in run: the low byte of PC stored at address 0 on the way.
Advance_StoresPc ==
    /\ ctl = "advance"
    /\ pc' = pc + 2
    /\ memory' = [memory EXCEPT ![0] = pc % 256]
    /\ ctl' = "run_loop"
    /\ UNCHANGED <<registers, register_i, sp, stack, dt, st, opcode>>
    /\ UNCHANGED <<env, outcome, program_data, listing, console, hist>>

\* A slip in run: PC advanced by two instructions.
Advance_ByFour ==
    /\ ctl = "advance"
    /\ pc' = pc + 4
    /\ ctl' = "run_loop"
    /\ UNCHANGED <<memory, registers, register_i, sp, stack, dt, st, opcode>>
    /\ UNCHANGED <<env, outcome, program_data, listing, console, hist>>

\* Cpu::run: `self.pc += 2` after execute.
Advance ==
    /\ ctl = "advance"
    /\ pc' = pc + 2
    /\ ctl' = "run_loop"
    /\ UNCHANGED <<memory, registers, register_i, sp, stack, dt, st, opcode>>
    /\ UNCHANGED <<env, outcome, program_data, listing, console, hist>>

(***************************************************************************)
(* Specifications.                                                         *)
(***************************************************************************)
Next ==
    \/ EmulatorRun
    \/ Disassemble
    \/ LoadProgram
    \/ Halt
    \/ Fetch
    \/ Execute
    \/ Advance

Spec == Init /\ [][Next]_vars

\* One instruction: every 16-bit word is fetched and executed, or
\* disassembled, once.
NextWord ==
    \/ EmulatorRun
    \/ Disassemble
    \/ LoadProgram
    \/ Fetch
    \/ Execute

SpecWord == InitWord /\ [][NextWord]_vars

\* The programs that compare, load and add.
SpecAlu == InitAlu /\ [][Next]_vars

\* main from the command line on.
NextArgs ==
    \/ HandleArgs
    \/ EmulatorRun
    \/ Disassemble
    \/ LoadProgram
    \/ Halt
    \/ Fetch
    \/ Execute
    \/ Advance

SpecArgs == InitArgs /\ [][NextArgs]_vars

\* Straight-line programs, run to the end of memory; the process keeps
\* running while it can take a step.
NextLine ==
    \/ EmulatorRun
    \/ LoadProgram
    \/ Halt
    \/ FetchLine
    \/ Execute
    \/ Advance

SpecLine == InitLine /\ [][NextLine]_vars /\ WF_vars(NextLine)

(***************************************************************************)
(* Properties.                                                             *)
(***************************************************************************)
PanicOutcomes ==
    {"panic: not implemented",
     "panic: index out of bounds (memory)",
     "panic: index out of bounds (stack)",
     "panic: range end index out of range",
     "panic: attempt to add with overflow",
     "panic: attempt to subtract with overflow"}

\* An instruction has been fetched and its handler has run; opcode is that
\* instruction until the next fetch.
Executed ==
    /\ steps > 0
    /\ ctl # "execute"
    /\ outcome # "panic: index out of bounds (memory)"

\* The fields of op are the bit fields of the word w.
FieldsOfWord(op, w) ==
    /\ op.raw = w
    /\ op.class = w \div 4096
    /\ op.addr = w % 4096
    /\ op.reg_x = (w \div 256) % 16
    /\ op.reg_y = (w \div 16) % 16
    /\ op.byte = w % 256
    /\ op.nibble = w % 16

\* C1: for every 16-bit word w, OpCode::new(w) has class = w >> 12,
\* addr = w & 0x0FFF, reg_x = (w >> 8) & 0xF, reg_y = (w >> 4) & 0xF,
\* byte = w & 0xFF, nibble = w & 0xF and raw = w, and construction never
\* fails: the disassembler gets one OpCode for each word of its input, and
\* the opcode the CPU holds after a fetch is built from the word fetched.
C1_OpCodeFields ==
    /\ (ctl = "done" /\ mode = "Disassembler" /\ outcome = "Ok") =>
          /\ Len(decoded) = Len(program_data) \div 2
          /\ \A i \in 1..Len(decoded) :
                FieldsOfWord(decoded[i],
                             program_data[2 * i - 1] * 256 + program_data[2 * i])
    /\ (steps > 0 /\ outcome # "panic: index out of bounds (memory)") =>
          FieldsOfWord(opcode, memory[fetch_addr] * 256 + memory[fetch_addr + 1])

\* The word 0xDEAD = 57005 has been disassembled: reg_x = 0xE, reg_y = 0xA.
C1_Witness ==
    /\ ctl = "done"
    /\ mode = "Disassembler"
    /\ Len(decoded) = 1
    /\ decoded[1].raw = 57005
    /\ decoded[1].reg_x = 14
    /\ decoded[1].reg_y = 10

\* C2: disassembler/dispatcher symmetry: for every word w, decode gives a
\* mnemonic that does not start with "UNKNOWN" if and only if Cpu::execute
\* does not take the unknown-opcode path on w.
C2_DecodeDispatchSymmetry ==
    Executed =>
        (~StartsWith(decode(opcode), <<"U", "N", "K", "N", "O", "W", "N">>)
            <=> outcome # "exit(1): unknown opcode")

\* C3: control transfers land on their target: after JP addr or CALL addr
\* the next instruction is fetched at addr, and after JP V0,addr at
\* addr + V0.
C3_TransfersLandOnTarget ==
    (ctl = "run_loop" /\ steps > 0) =>
        /\ opcode.class \in {1, 2} => pc = opcode.addr
        /\ opcode.class = 11 => pc = opcode.addr + registers[0]

\* C4: CALL/RET round trip: the RET that matches a CALL executed at address
\* a makes the next instruction fetched the one at a + 2 and restores the
\* stack pointer to its value before the CALL.
C4_CallRetRoundTrip ==
    (ctl = "run_loop" /\ ret_match # NoCall) =>
        /\ pc = ret_match.ret
        /\ sp = ret_match.sp

\* C5: CALL succeeds (pushes and transfers control) whenever the nesting
\* depth is 0..15, so that 16 nested CALLs all succeed.
C5_CallSucceedsBelowLimit ==
    [][(ctl = "execute" /\ opcode.class = 2 /\ sp \in 0..15) =>
          (ctl' = "advance" /\ sp' = sp + 1 /\ pc' = opcode.addr)]_vars

\* C6: in every reachable state sp is in 0..16, and every stack access of
\* CALL and RET uses an index inside the 16-entry array (no access is
\* stopped as out of bounds).
C6_StackAccessInBounds ==
    /\ sp \in 0..16
    /\ outcome # "panic: index out of bounds (stack)"

\* The RET handler is about to run with an empty stack.
RetOnEmptyStack == ctl = "execute" /\ opcode.raw = 238 /\ sp = 0

\* The RET handler has run and found the stack empty.
AfterRetOnEmptyStack == ctl = "advance" /\ opcode.raw = 238 /\ ret_match = NoCall

\* C7: RET with an empty stack is a no-op that never aborts the run: the
\* handler leaves PC, sp, the stack, the V registers, I, the timers and
\* memory unchanged, and execution continues with the following instruction.
C7_RetOnEmptyStackIsNoOp ==
    [][/\ RetOnEmptyStack =>
            /\ UNCHANGED <<pc, sp, stack, registers, register_i, dt, st, memory>>
            /\ ctl' = "advance"
            /\ outcome' = "none"
       /\ AfterRetOnEmptyStack =>
            /\ pc' = fetch_addr + 2
            /\ ctl' = "run_loop"
            /\ outcome' = "none"
            /\ UNCHANGED <<sp, stack, registers, register_i, dt, st, memory>>]_vars

\* A RET found the stack empty and the run is at the following instruction.
C7_Witness ==
    /\ ctl = "run_loop"
    /\ opcode.raw = 238
    /\ ret_match = NoCall
    /\ steps > 0
    /\ sp = 0
    /\ pc = fetch_addr + 2
    /\ outcome = "none"

\* C8: load_program with a program p of n <= 3584 bytes sets
\* memory[0x200 + i] = p[i] for 0 <= i < n and leaves every other byte of
\* memory, the registers, I, PC, sp, the stack and the timers unchanged.
C8_LoadProgramFrame ==
    [][(ctl = "emulate" /\ Len(program_data) <= 3584) =>
          /\ \A i \in 0..(Len(program_data) - 1) :
                memory'[512 + i] = program_data[i + 1]
          /\ \A a \in 0..4095 :
                (a < 512 \/ a >= 512 + Len(program_data)) => memory'[a] = memory[a]
          /\ UNCHANGED <<registers, register_i, pc, sp, stack, dt, st>>
          /\ ctl' = "run_loop"]_vars

\* A program of 3584 bytes has been loaded: its last byte is the last byte
\* of memory.
C8_Witness ==
    /\ ctl = "run_loop"
    /\ steps = 0
    /\ Len(program_data) = 3584
    /\ memory[512] = 96
    /\ memory[4095] = 255
    /\ memory[511] = 0

\* C9: loading a program longer than 3584 bytes fails with an error value
\* returned to the caller: the process does not panic, memory is left
\* unchanged and no instruction is executed.
C9_TooLargeIsAnError ==
    (mode = "Emulator" /\ Len(program_data) > 3584 /\ ctl \notin {"run", "emulate"}) =>
        /\ ctl = "done"
        /\ outcome \notin PanicOutcomes
        /\ outcome \notin {"none", "Ok"}
        /\ memory = ResetMemory
        /\ steps = 0

\* C10: a program file of odd length is rejected with an error by
\* Emulator::run before load_program or Cpu::run is called: in both modes no
\* instruction is fetched, executed or disassembled and the CPU stays at its
\* reset values.
C10_OddLengthRejected ==
    (file_status = "ok" /\ Len(file) % 2 = 1 /\ ctl # "run") =>
        /\ ctl = "done"
        /\ outcome = "Err: odd length"
        /\ CpuNew
        /\ steps = 0
        /\ call_log = <<>>
        /\ listing = <<>>
        /\ decoded = <<>>

\* A file of three bytes has been rejected in emulator mode.
C10_Witness ==
    /\ mode = "Emulator"
    /\ file_status = "ok"
    /\ Len(file) = 3
    /\ ctl = "done"
    /\ outcome = "Err: odd length"

\* C11: every 16-bit word has a defined outcome when executed: Cpu::execute
\* performs the instruction or reports an unknown opcode; no word ends the
\* process in an unconditional abort (unimplemented!()).
C11_EveryWordHasAnOutcome ==
    Executed => outcome # "panic: not implemented"

\* The four digits of w in upper-case hexadecimal.
Hex4(w) ==
    <<HexDigits[(w \div 4096) + 1], HexDigits[((w \div 256) % 16) + 1],
      HexDigits[((w \div 16) % 16) + 1], HexDigits[(w % 16) + 1]>>

\* The encodings the dispatch table does not define.
UndefinedEncoding(w) ==
    LET c  == w \div 4096
        n  == w % 16
        kk == w % 256
    IN  \/ c = 5 /\ n # 0
        \/ c = 8 /\ n \notin {0, 1, 2, 3, 4, 5, 6, 7, 14}
        \/ c = 9 /\ n # 0
        \/ c = 14 /\ kk \notin {158, 161}
        \/ c = 15 /\ kk \notin {7, 10, 21, 24, 30, 41, 51, 85, 101}

\* s ends with p.
EndsWith(s, p) ==
    /\ Len(s) >= Len(p)
    /\ SubSeq(s, Len(s) - Len(p) + 1, Len(s)) = p

\* The dispatcher is about to run a word the dispatch table does not define.
AtUndefinedEncoding ==
    ctl = "execute" /\ UndefinedEncoding(opcode.raw)

\* The dispatcher is about to run a word of class 0xE whose low byte is
\* neither 0x9E nor 0xA1: the one place where it calls Cpu::unknown.
AtUnknownOpcode ==
    ctl = "execute" /\ opcode.class = 14 /\ opcode.byte \notin {158, 161}

C13_AddRegReg ==
    [][(ctl = "execute" /\ opcode.class = 8 /\ opcode.nibble = 4) =>
          LET sum == registers[opcode.reg_x] + registers[opcode.reg_y]
          IN  /\ registers' = [[registers EXCEPT ![opcode.reg_x] = sum % 256]
                                  EXCEPT ![15] = IF sum > 255 THEN 1 ELSE 0]
              /\ ctl' = "advance"]_vars

\* C14: ADD Vx,byte (7xkk) sets Vx to (Vx + kk) mod 256 for every Vx and kk,
\* also when the sum exceeds 255 (it wraps and never aborts the run), and
\* changes no other register.
C14_AddRegByteWraps ==
    [][(ctl = "execute" /\ opcode.class = 7) =>
          /\ registers' =
                [registers EXCEPT ![opcode.reg_x] =
                    (registers[opcode.reg_x] + opcode.byte) % 256]
          /\ UNCHANGED register_i
          /\ ctl' = "advance"]_vars

\* C15: after SE Vx,byte at address a the next instruction is fetched at
\* a + 4 if Vx = kk and at a + 2 otherwise; after SNE Vx,byte at a + 4 if
\* Vx # kk and at a + 2 otherwise.
C15_ConditionalSkips ==
    (ctl = "run_loop" /\ steps > 0) =>
        /\ opcode.class = 3 =>
              pc = fetch_addr + (IF registers[opcode.reg_x] = opcode.byte THEN 4 ELSE 2)
        /\ opcode.class = 4 =>
              pc = fetch_addr + (IF registers[opcode.reg_x] # opcode.byte THEN 4 ELSE 2)

\* SE V0,FF at 0x202 found V0 = FF: the next fetch is at 0x206.
C15_Witness ==
    /\ ctl = "run_loop"
    /\ opcode.raw = 12543
    /\ registers[0] = 255
    /\ fetch_addr = 514
    /\ pc = 518

\* C16: the program counter is even at every fetch.
C16_PcEven ==
    ctl = "run_loop" => pc % 2 = 0

\* C17: the run halts cleanly when PC leaves the address space: whenever PC
\* is 4095 or more at the head of the loop, the run ends with Halt instead
\* of reading memory out of bounds.
C17_HaltsOutsideMemory ==
    [][(ctl = "run_loop" /\ pc >= 4095) =>
          (ctl' = "done" /\ outcome' = "Ok")]_vars

\* C18: LD I,addr (Annn) sets I to nnn and changes nothing else except PC,
\* and I holds a 12-bit value in every reachable state.
C18_LoadIndex ==
    /\ [](register_i \in 0..4095)
    /\ [][(ctl = "execute" /\ opcode.class = 10) =>
             /\ register_i' = opcode.raw % 4096
             /\ UNCHANGED <<registers, sp, stack, dt, st, memory>>
             /\ ctl' = "advance"]_vars

\* LD I,FFF has run.
C18_Witness ==
    /\ ctl = "run_loop"
    /\ opcode.raw = 45055
    /\ register_i = 4095

\* C19: RND Vx,byte can give every r & kk with r in 0..255 (with kk = 0xFF
\* every value up to 255).
C19_RndRange ==
    (ctl = "execute" /\ opcode.class = 12) =>
        \A r \in 0..255 :
            ENABLED (/\ Execute
                     /\ registers' =
                           [registers EXCEPT ![opcode.reg_x] = BitAnd(r, opcode.byte)])

\* The name of the operation the dispatch table gives a defined word.
TableName(w) ==
    LET c  == w \div 4096
        n  == w % 16
        kk == w % 256
    IN  CASE c = 0 -> (IF w = 224 THEN <<"C", "L", "S">> ELSE IF w = 238 THEN <<"R", "E", "T">> ELSE <<"S", "Y", "S">>)
          [] c \in {1, 11} -> <<"J", "P">>
          [] c = 2 -> <<"C", "A", "L", "L">>
          [] c \in {3, 5} -> <<"S", "E">>
          [] c \in {4, 9} -> <<"S", "N", "E">>
          [] c \in {6, 10} -> <<"L", "D">>
          [] c = 7 -> <<"A", "D", "D">>
          [] c = 8 ->
               (CASE n = 0 -> <<"L", "D">> [] n = 1 -> <<"O", "R">> [] n = 2 -> <<"A", "N", "D">>
                  [] n = 3 -> <<"X", "O", "R">> [] n = 4 -> <<"A", "D", "D">> [] n = 5 -> <<"S", "U", "B">>
                  [] n = 6 -> <<"S", "H", "R">> [] n = 7 -> <<"S", "U", "B", "N">> [] OTHER -> <<"S", "H", "L">>)
          [] c = 12 -> <<"R", "N", "D">>
          [] c = 13 -> <<"D", "R", "W">>
          [] c = 14 -> (IF kk = 158 THEN <<"S", "K", "P">> ELSE <<"S", "K", "N", "P">>)
          [] OTHER -> (IF kk = 30 THEN <<"A", "D", "D">> ELSE <<"L", "D">>)

\* The mnemonic of a line of the listing: what follows "<0x....>  |....|  ".
MnemonicOf(line) == SubSeq(line, 19, Len(line))

\* m is name alone or name followed by a space.
NamedBy(m, name) ==
    /\ StartsWith(m, name)
    /\ Len(m) > Len(name) => m[Len(name) + 1] = " "

\* C20: OpCode::decode is total and marks exactly the undefined encodings as
\* unknown: for every word w it returns a non-empty string, which is
\* "UNKNOWN: " followed by the four hex digits of w exactly when w is 5xyN
\* (N # 0), 8xyN (N not in 0..7, E), 9xyN (N # 0), Exkk (kk not 9E, A1) or
\* Fxkk (kk not 07, 0A, 15, 18, 1E, 29, 33, 55, 65); every other word gets
\* the mnemonic of its operation.
C20_DecodeMarksUndefined ==
    (ctl = "done" /\ mode = "Disassembler" /\ outcome = "Ok") =>
        /\ Len(listing) = Len(program_data) \div 2
        /\ \A i \in 1..Len(listing) :
              LET w == program_data[2 * i - 1] * 256 + program_data[2 * i]
                  m == MnemonicOf(listing[i])
              IN  /\ Len(m) > 0
                  /\ (m = <<"U", "N", "K", "N", "O", "W", "N", ":", " ">> \o Hex4(w)) <=> UndefinedEncoding(w)
                  /\ ~UndefinedEncoding(w) => NamedBy(m, TableName(w))

\* The words 0x8ABF and, in another run, any defined word are listed; here
\* 0x8ABF = <<138, 191>> is listed as unknown.
C20_Witness ==
    /\ ctl = "done"
    /\ mode = "Disassembler"
    /\ program_data = <<138, 191>>
    /\ Len(listing) = 1
    /\ MnemonicOf(listing[1]) = <<"U", "N", "K", "N", "O", "W", "N", ":", " ", "8", "A", "B", "F">>

\* The last n digits of w in upper-case hexadecimal, zero-padded.
Hex3(w) == SubSeq(Hex4(w), 2, 4)

Hex2(w) == SubSeq(Hex4(w), 3, 4)

\* C21: mnemonic operands are bare upper-case hexadecimal with no "0x"
\* prefix: an address as 3 digits (SYS 123, JP 123, CALL 123, LD I, 123,
\* JP V0, 123), a byte immediate as 2 digits (SE V1, 23) and the DRW nibble
\* as 2 digits (DRW V1, V2, 03).
C21_BareHexOperands ==
    (ctl = "done" /\ mode = "Disassembler" /\ outcome = "Ok") =>
        \A i \in 1..Len(listing) :
            LET w == program_data[2 * i - 1] * 256 + program_data[2 * i]
                c == w \div 4096
                m == MnemonicOf(listing[i])
            IN  /\ (c \in {1, 2, 10, 11} \/ (c = 0 /\ w \notin {224, 238})) =>
                      m = TableName(w)
                            \o (IF c = 10 THEN <<" ", "I", ",", " ">> ELSE IF c = 11 THEN <<" ", "V", "0", ",", " ">> ELSE <<" ">>)
                            \o Hex3(w % 4096)
                /\ c \in {3, 4, 6, 7, 12} => EndsWith(m, <<",", " ">> \o Hex2(w % 256))
                /\ c = 13 => EndsWith(m, <<",", " ">> \o Hex2(w % 16))

\* The line the listing has for the word at index i (from 0) of the buffer.
ExpectedLine(i) ==
    LET w == program_data[2 * i + 1] * 256 + program_data[2 * i + 2]
    IN  <<"<", "0", "x">> \o Hex4(512 + 2 * i) \o <<">", " ", " ", "|">> \o Hex4(w) \o <<"|", " ", " ">>
          \o decode(OpCodeNew(w))

\* C22: the listing has exactly one line per 16-bit big-endian word of the
\* input, in input order; line i (from 0) carries the address 0x200 + 2*i,
\* the raw word (byte[2i] << 8) | byte[2i+1] and that word's mnemonic.
C22_ListingLines ==
    (ctl = "done" /\ mode = "Disassembler" /\ outcome = "Ok") =>
        /\ program_data = file
        /\ Len(listing) = Len(file) \div 2
        /\ \A i \in 0..(Len(listing) - 1) : listing[i + 1] = ExpectedLine(i)

\* The file 60FF 7001 is listed in two lines, at 0x0200 and 0x0202.
C22_Witness ==
    /\ ctl = "done"
    /\ mode = "Disassembler"
    /\ file = <<96, 255, 112, 1>>
    /\ listing = << <<"<", "0", "x", "0", "2", "0", "0", ">", " ", " ", "|", "6", "0", "F", "F", "|", " ", " ", "L", "D", " ", "V", "0", ",", " ", "0", "x", "F", "F">>,
                    <<"<", "0", "x", "0", "2", "0", "2", ">", " ", " ", "|", "7", "0", "0", "1", "|", " ", " ", "A", "D", "D", " ", "V", "0", ",", " ", "0", "x", "1">> >>

\* C23: a freshly created Cpu is in the reset state: V0..VF, I, sp and both
\* timers are 0, PC is 0x200, the stack is empty, and memory is zero except
\* for a font sprite table below 0x200, which is present and non-zero.
C23_ResetState ==
    ctl = "run" =>
        /\ \A r \in 0..15 : registers[r] = 0
        /\ register_i = 0 /\ sp = 0 /\ dt = 0 /\ st = 0
        /\ pc = 512
        /\ \A a \in 512..4095 : memory[a] = 0
        /\ \E a \in 0..511 : memory[a] # 0

\* C24: timers are decoupled from instruction execution: no step of the run
\* loop that belongs to an instruction other than LD DT,Vx (Fx15) and
\* LD ST,Vx (Fx18) changes the delay timer or the sound timer.
C24_TimersDecoupled ==
    [][(ctl \in {"run_loop", "execute", "advance"}
          /\ ~(ctl # "run_loop" /\ opcode.class = 15 /\ opcode.byte \in {21, 24}))
        => UNCHANGED <<dt, st>>]_vars

\* Some instructions have been executed and both timers are as they were set.
C24_Witness ==
    /\ ctl = "run_loop"
    /\ steps >= 3
    /\ registers[0] # 0
    /\ dt = 0
    /\ st = 0

\* The instruction in execution is SYS, JP, JP V0, SE or SNE.
FrameOnlyPc ==
    \/ opcode.class = 0 /\ opcode.raw \notin {224, 238}
    \/ opcode.class \in {1, 11, 3, 4}

\* C25: SYS addr, JP addr, JP V0,addr, SE and SNE change no state other than
\* PC (V registers, I, sp, stack, timers and memory stay as they are), and
\* SYS only advances PC to the next sequential instruction and never aborts
\* the run.
C25_ControlFlowFrame ==
    /\ [][(ctl \in {"execute", "advance"} /\ FrameOnlyPc) =>
             /\ UNCHANGED <<registers, register_i, sp, stack, dt, st, memory>>
             /\ ctl' \in {"advance", "run_loop"}
             /\ outcome' = "none"]_vars
    /\ []((ctl = "run_loop" /\ steps > 0 /\ opcode.class = 0
             /\ opcode.raw \notin {224, 238}) => pc = fetch_addr + 2)

\* SYS 123 has run as the second instruction, after LD V0,FF.
C25_Witness ==
    /\ ctl = "run_loop"
    /\ opcode.raw = 291
    /\ fetch_addr = 514
    /\ pc = 516
    /\ registers[0] = 255

\* The process ended in handle_args with a non-zero status.
ArgsFailure ==
    outcome \in {"exit(1): usage", "exit(1): unknown option",
                 "exit(1): target path is not set", "exit(1): filename is empty"}

\* The process ended in handle_args with status 0.
ArgsSuccess == outcome \in {"exit(0): help", "exit(0): version"}

\* Nothing of the emulator has run: no file read, nothing listed or executed.
EmulatorNotStarted ==
    /\ program_data = <<>>
    /\ listing = <<>>
    /\ console = <<>>
    /\ steps = 0
    /\ memory = ResetMemory

\* C26: command-line handling.  With the first argument -d/--disasm or
\* -e/--emulator and a non-empty following argument, the run has that mode
\* and that file; no arguments, an unrecognised first argument, a mode flag
\* with nothing after it, or an empty filename end the process with a
\* non-zero status without starting the emulator; -h/--help and
\* -v/--version end it with status 0 before any file is processed.
C26_CommandLine ==
    ctl # "main" =>
        LET n    == Len(args) - 1
            a1   == args[2]
            flag == n >= 1 /\ a1 \in {"-d", "--disasm", "-e", "--emulator"}
        IN  /\ (flag /\ n >= 2 /\ args[3] # "") =>
                  /\ ~ArgsFailure /\ ~ArgsSuccess
                  /\ mode = (IF a1 \in {"-d", "--disasm"} THEN "Disassembler" ELSE "Emulator")
                  /\ filename = args[3]
            /\ (n = 0 \/ (flag /\ n = 1) \/ (flag /\ n >= 2 /\ args[3] = "")
                  \/ (n >= 1 /\ a1 \notin {"-h", "--help", "-v", "--version", "-d",
                                           "--disasm", "-e", "--emulator"})) =>
                  ArgsFailure /\ ctl = "done" /\ EmulatorNotStarted
            /\ (n >= 1 /\ a1 \in {"-h", "--help", "-v", "--version"}) =>
                  ArgsSuccess /\ ctl = "done" /\ EmulatorNotStarted

\* "--disasm rom.ch8 -h" has been given: the listing is printed.
C26_Witness ==
    /\ args = <<"chip8", "--disasm", "rom.ch8", "-h">>
    /\ mode = "Disassembler"
    /\ filename = "rom.ch8"
    /\ ctl = "done"
    /\ outcome = "Ok"
    /\ Len(listing) = 1

\* C27: instruction execution never writes memory: from load_program on,
\* no step of the run loop changes memory, whatever is executed, so memory
\* stays as it was right after the load.
C27_MemoryReadOnly ==
    [][(ctl \in {"run_loop", "execute", "advance"}) => (memory' = memory)]_vars

\* MaxSteps instructions have run, a register was written, and memory holds
\* the program and nothing else.
C27_Witness ==
    /\ steps = MaxSteps
    /\ ctl = "run_loop"
    /\ registers[0] # 0
    /\ Len(program_data) = 4
    /\ memory = LoadedMemory(ResetMemory, program_data)

\* The number of instruction words between START_ADDR and the end of memory.
LineLength == (RAM_SIZE - START_ADDR) \div 2

\* C28: straight-line programs terminate: for a program of SYS, LD Vx,byte,
\* LD I,addr and RND with the rest of memory zero, Cpu::run executes the
\* instruction at each even address 0x200, 0x202, ..., 0xFFE exactly once in
\* increasing order and then halts with PC = 4096.
C28_StraightLineTerminates ==
    /\ <>(ctl = "done" /\ outcome = "Ok" /\ pc = RAM_SIZE /\ steps = LineLength
            /\ fetch_addr = RAM_SIZE - 2)
    /\ [](steps > 0 => fetch_addr = START_ADDR + 2 * (steps - 1))
    /\ [][steps' # steps => (steps' = steps + 1 /\ pc = START_ADDR + 2 * steps)]_vars

\* The four-instruction program has run in order and the run is two words
\* into the zero memory that follows it, on its way to the end of memory.
C28_Witness ==
    /\ ctl = "run_loop"
    /\ Len(program_data) = 8
    /\ steps = 6
    /\ fetch_addr = START_ADDR + 10
    /\ pc = START_ADDR + 12
    /\ registers[0] = 1
    /\ register_i = 291
    /\ Len(console) = 6

=============================================================================
